---- MODULE Spec2Model ----
(***************************************************************************)
(* Toolchain registry of rye (src/rye/src/cli/toolchain.rs): register,     *)
(* remove and list over the canonical, version-keyed directory of          *)
(* interpreter toolchains.                                                 *)
(*                                                                         *)
(* Strings the code inspects character by character (implementation name,  *)
(* label, version, key) are sequences of one-character strings.  Candidate *)
(* paths are only copied and compared, and are plain TLA+ strings.         *)
(***************************************************************************)
EXTENDS Integers, Sequences, FiniteSets, TLC

VARIABLES
    platform,      \* "unix" or "windows": the cfg the binary was built for
    privileged,    \* the process may create symbolic links (always so on unix)
    probe,         \* what the candidate at ProbePath prints
    downloadable,  \* what iter_downloadable(OS, ARCH) yields
    fs,            \* the toolchain directory and the candidate files
    before,        \* fs as the last operation found it
    last,          \* the last operation: its arguments and its outcome
    run            \* the register_toolchain runs under way at once, step by step

vars == <<platform, privileged, probe, downloadable, fs, before, last, run>>

\* Option<T>: None, or Some(x)
None == <<>>
Some(x) == <<x>>
IsSome(o) == o # None
Unwrap(o) == o[1]

(***************************************************************************)
(* Characters and strings                                                  *)
(***************************************************************************)

\* The characters that occur, in ASCII order (String's Ord is bytewise).
Ascii ==
    << "-", ".", "0", "1", "2", "3", "4", "5", "6", "7", "8", "9", "@",
       "A", "B", "C", "D", "E", "F", "G", "H", "I", "J", "K", "L", "M",
       "N", "O", "P", "Q", "R", "S", "T", "U", "V", "W", "X", "Y", "Z",
       "a", "b", "c", "d", "e", "f", "g", "h", "i", "j", "k", "l", "m",
       "n", "o", "p", "q", "r", "s", "t", "u", "v", "w", "x", "y", "z" >>

Code(c) == CHOOSE i \in DOMAIN Ascii : Ascii[i] = c

Digits == <<"0", "1", "2", "3", "4", "5", "6", "7", "8", "9">>

IsDigit(c) == \E i \in DOMAIN Digits : Digits[i] = c

DigitValue(c) == (CHOOSE i \in DOMAIN Digits : Digits[i] = c) - 1

IsUpper(c) == Code(c) >= Code("A") /\ Code(c) <= Code("Z")

\* u8::to_ascii_lowercase: only A..Z change
LowerChar(c) == IF IsUpper(c) THEN Ascii[Code(c) - Code("A") + Code("a")] ELSE c

\* str::to_ascii_lowercase (line 198)
ToAsciiLowercase(s) == [i \in DOMAIN s |-> LowerChar(s[i])]

\* Ord of String: lexicographic on bytes, a proper prefix is smaller
RECURSIVE StrLess(_, _)
StrLess(a, b) ==
    IF b = <<>> THEN FALSE
    ELSE IF a = <<>> THEN TRUE
    ELSE IF Code(Head(a)) # Code(Head(b)) THEN Code(Head(a)) < Code(Head(b))
    ELSE StrLess(Tail(a), Tail(b))

\* position of the first occurrence of c in s, 0 when there is none
FirstIndex(s, c) ==
    IF \E i \in DOMAIN s : s[i] = c
    THEN CHOOSE i \in DOMAIN s : s[i] = c /\ \A j \in 1..(i - 1) : s[j] # c
    ELSE 0

\* s split at every c
RECURSIVE Split(_, _)
Split(s, c) ==
    LET i == FirstIndex(s, c)
    IN  IF i = 0 THEN <<s>>
        ELSE <<SubSeq(s, 1, i - 1)>> \o Split(SubSeq(s, i + 1, Len(s)), c)

RECURSIVE DigitsToNat(_)
DigitsToNat(s) ==
    IF s = <<>> THEN 0
    ELSE 10 * DigitsToNat(SubSeq(s, 1, Len(s) - 1)) + DigitValue(s[Len(s)])

RECURSIVE NatToDigits(_)
NatToDigits(n) ==
    IF n < 10 THEN <<Digits[n + 1]>>
    ELSE NatToDigits(n \div 10) \o <<Digits[(n % 10) + 1]>>

(***************************************************************************)
(* PythonVersion (crate::sources, used through parse, Display and Ord)     *)
(***************************************************************************)

\* a decimal number as Display prints it back: digits, no leading zero
IsNumber(s) ==
    /\ s # <<>>
    /\ \A i \in DOMAIN s : IsDigit(s[i])
    /\ (Len(s) > 1 => s[1] # "0")

\* str::parse::<PythonVersion>: "<kind>@<major>.<minor>.<patch>"
ParseVersion(s) ==
    LET at == FirstIndex(s, "@")
        kind == SubSeq(s, 1, at - 1)
        parts == Split(SubSeq(s, at + 1, Len(s)), ".")
    IN  IF at = 0 \/ Len(parts) # 3 \/ \E i \in 1..Len(parts) : ~IsNumber(parts[i])
        THEN [ok |-> FALSE]
        ELSE [ok |-> TRUE,
              value |-> [kind |-> kind,
                         major |-> DigitsToNat(parts[1]),
                         minor |-> DigitsToNat(parts[2]),
                         patch |-> DigitsToNat(parts[3])]]

\* Display of PythonVersion
VersionToString(v) ==
    v.kind \o <<"@">> \o NatToDigits(v.major) \o <<".">> \o NatToDigits(v.minor)
           \o <<".">> \o NatToDigits(v.patch)

\* Ord of PythonVersion: field by field, kind first
VersionLess(a, b) ==
    IF a.kind # b.kind THEN StrLess(a.kind, b.kind)
    ELSE IF a.major # b.major THEN a.major < b.major
    ELSE IF a.minor # b.minor THEN a.minor < b.minor
    ELSE a.patch < b.patch

\* get_canonical_py_path: the entry named after the key in the toolchain
\* directory; a path is the pair of its directory and its file name
PyDir == "py"

get_canonical_py_path(v) == <<PyDir, VersionToString(v)>>

(***************************************************************************)
(* Introspection output and its deserialisation                            *)
(***************************************************************************)

JString(s) == [j |-> "string", s |-> s]
JBool(b) == [j |-> "bool", b |-> b]
JNumber == [j |-> "number"]
JNull == [j |-> "null"]
JObject(members) == [j |-> "object", members |-> members]
JArray(items) == [j |-> "array", items |-> items]

\* the fields of InspectInfo in declaration order (lines 31-35)
InspectFields == <<"python_implementation", "python_version", "python_debug">>

\* the type each field of InspectInfo deserialises from (lines 32-34)
FieldType(name) == IF name = "python_debug" THEN "bool" ELSE "string"

FieldValue(v) == IF v.j = "bool" THEN v.b ELSE v.s

MembersNamed(members, name) == {i \in DOMAIN members : members[i][1] = name}

\* DeserializeMap with #[serde(deny_unknown_fields)]: a member the struct
\* does not have is an error
DeserializeMap_DenyUnknown(members) ==
    IF /\ \A i \in DOMAIN members :
             \E k \in DOMAIN InspectFields : members[i][1] = InspectFields[k]
       /\ \A k \in DOMAIN InspectFields :
             LET at == MembersNamed(members, InspectFields[k])
             IN  /\ Cardinality(at) = 1
                 /\ \A i \in at : members[i][2].j = FieldType(InspectFields[k])
    THEN [ok |-> TRUE,
          info |-> [f \in {InspectFields[k] : k \in DOMAIN InspectFields} |->
                      FieldValue(members[CHOOSE i \in DOMAIN members :
                                             members[i][1] = f][2])]]
    ELSE [ok |-> FALSE]

\* derived Deserialize of a struct from a JSON object: every field of the
\* struct once and of its type; members with other names are skipped
DeserializeMap(members) ==
    IF \A k \in DOMAIN InspectFields :
          LET at == MembersNamed(members, InspectFields[k])
          IN  /\ Cardinality(at) = 1
              /\ \A i \in at : members[i][2].j = FieldType(InspectFields[k])
    THEN [ok |-> TRUE,
          info |-> [f \in {InspectFields[k] : k \in DOMAIN InspectFields} |->
                      FieldValue(members[CHOOSE i \in DOMAIN members :
                                             members[i][1] = f][2])]]
    ELSE [ok |-> FALSE]

\* derived Deserialize of a struct from a JSON array: the fields in
\* declaration order, no element missing and none left over
DeserializeSeq(items) ==
    IF /\ Len(items) = Len(InspectFields)
       /\ \A k \in DOMAIN InspectFields : items[k].j = FieldType(InspectFields[k])
    THEN [ok |-> TRUE,
          info |-> [f \in {InspectFields[k] : k \in DOMAIN InspectFields} |->
                      FieldValue(items[CHOOSE k \in DOMAIN InspectFields :
                                           InspectFields[k] = f])]]
    ELSE [ok |-> FALSE]

\* Standard output: the JSON values it holds one after the other, or text
\* that is not JSON at all
Json(values) == [json |-> TRUE, values |-> values]
Garbage == [json |-> FALSE, values |-> <<>>]

\* serde_json::from_slice::<InspectInfo>(&output.stdout) (line 191): one
\* value and nothing after it; a struct is read from an object or an array
FromSlice(stdout) ==
    IF ~stdout.json \/ Len(stdout.values) # 1 THEN [ok |-> FALSE]
    ELSE IF stdout.values[1].j = "object" THEN DeserializeMap(stdout.values[1].members)
    ELSE IF stdout.values[1].j = "array" THEN DeserializeSeq(stdout.values[1].items)
    ELSE [ok |-> FALSE]

(***************************************************************************)
(* The machine: platform, candidate programs, toolchain directory          *)
(***************************************************************************)

Str_CPython == <<"C", "P", "y", "t", "h", "o", "n">>
Str_PyPy == <<"P", "y", "P", "y">>
Str_390 == <<"3", ".", "9", ".", "0">>
Str_3114 == <<"3", ".", "1", "1", ".", "4">>
Str_Dev == <<"D", "e", "v">>
Str_AtLabel == <<"a", "@", "b">>

\* what INSPECT_SCRIPT (lines 19-28) prints under a given interpreter
InspectOutput(impl, version, debug) ==
    Json(<< JObject(<< <<"python_implementation", JString(impl)>>,
                       <<"python_version", JString(version)>>,
                       <<"python_debug", JBool(debug)>> >>) >>)

CPythonPath == "/opt/cpython/bin/python3"
CPythonDbgPath == "/opt/cpython-dbg/bin/python3"
PyPyPath == "/opt/pypy/bin/pypy3"
AlphaPath == "/opt/alpha/bin/python3"
BrokenPath == "/opt/broken/bin/python3"
ProbePath == "/tmp/probe"
DataPath == "/etc/hostname"
NonUnicodePath == "/opt/cpython-<ff>/bin/python3"

\* the interpreters a registration may link to; each can later be uninstalled
Interpreters ==
    (CPythonPath :> [exit |-> 0, stdout |-> InspectOutput(Str_CPython, Str_390, FALSE)])
    @@ (CPythonDbgPath :> [exit |-> 0, stdout |-> InspectOutput(Str_CPython, Str_390, TRUE)])
    @@ (PyPyPath :> [exit |-> 0, stdout |-> InspectOutput(Str_PyPy, Str_3114, FALSE)])

\* python_version() of a pre-release, which is no <major>.<minor>.<patch>
Str_Alpha == <<"3", ".", "1", "3", ".", "0", "a", "1">>

\* executables that are always there: a pre-release interpreter, one that
\* prints its report and then exits with status 1, one that prints `out`, and
\* an interpreter whose path is no valid Unicode
Programs(out) ==
    (AlphaPath :> [exit |-> 0, stdout |-> InspectOutput(Str_CPython, Str_Alpha, FALSE)])
    @@ (BrokenPath :> [exit |-> 1, stdout |-> InspectOutput(Str_CPython, Str_390, FALSE)])
    @@ (ProbePath :> [exit |-> 0, stdout |-> out])
    @@ (NonUnicodePath :> [exit |-> 0, stdout |-> InspectOutput(Str_CPython, Str_390, FALSE)])

\* the paths a caller may pass to register; DataPath is a file that cannot be run
Paths ==
    DOMAIN Interpreters
    \cup {AlphaPath, BrokenPath, ProbePath, DataPath, NonUnicodePath}

Labels == {None, Some(Str_Dev), Some(Str_AtLabel)}

Program == [t |-> "program"]
Absent == [t |-> "absent"]
TextFile(text) == [t |-> "text", text |-> text]

NoEntry == [t |-> "none"]
Link(to) == [t |-> "link", to |-> to]
PlainFile(text) == [t |-> "file", text |-> text]
Directory == [t |-> "dir"]
\* a directory that remove_dir_all was deleting when it was killed: some of
\* the tree is gone, the directory itself is still there
PartlyDeleted == [t |-> "dir", partly |-> TRUE]

\* the entry of the toolchain directory at a canonical path
Entry(f, path) == IF path[2] \in DOMAIN f.node THEN f.node[path[2]] ELSE NoEntry

WithEntry(f, path, e) ==
    [f EXCEPT !.node = [n \in DOMAIN f.node \cup {path[2]} |->
                           IF n = path[2] THEN e ELSE f.node[n]]]

WithoutEntry(f, path) ==
    [f EXCEPT !.node = [n \in DOMAIN f.node \ {path[2]} |-> f.node[n]]]

\* a file exists at a candidate path
Exists(f, p) ==
    IF p \in DOMAIN f.cand THEN f.cand[p].t # "absent" ELSE p \in Paths

\* Path::is_file follows links: a plain file, or a link to a file that exists
IsFile(f, path) ==
    LET e == Entry(f, path)
    IN  e.t = "file" \/ (e.t = "link" /\ Exists(f, e.to))

\* Path::is_dir
IsDir(f, path) == Entry(f, path).t = "dir"

\* Command::new(path).arg("-c").arg(INSPECT_SCRIPT).output() (lines 182-186)
Spawn(f, out, path) ==
    IF path \in DOMAIN f.cand
    THEN IF f.cand[path].t = "program"
         THEN [ok |-> TRUE, exit |-> Interpreters[path].exit,
               stdout |-> Interpreters[path].stdout]
         ELSE [ok |-> FALSE]
    ELSE IF path \in DOMAIN Programs(out)
         THEN [ok |-> TRUE, exit |-> Programs(out)[path].exit,
               stdout |-> Programs(out)[path].stdout]
         ELSE [ok |-> FALSE]

\* fs::create_dir_all(parent): "blocked" is a parent path that cannot be made a
\* directory (a regular file sits there)
CreateDirAll(f) ==
    IF f.parent = "blocked" THEN [ok |-> FALSE, fs |-> f]
    ELSE [ok |-> TRUE, fs |-> [f EXCEPT !.parent = "dir"]]

\* crate::utils::symlink_file(original, link): needs the directory, a free
\* name (a dangling link occupies it too) and, on Windows, the privilege
SymlinkFile(f, plat, priv, original, link) ==
    IF /\ f.parent = "dir"
       /\ Entry(f, link).t = "none"
       /\ (plat = "unix" \/ priv)
    THEN [ok |-> TRUE, fs |-> WithEntry(f, link, Link(original))]
    ELSE [ok |-> FALSE, fs |-> f]

\* fs::write(path, contents): creates or truncates, following a link
FsWrite(f, path, contents) ==
    LET e == Entry(f, path)
    IN  IF f.parent # "dir" \/ e.t = "dir" THEN [ok |-> FALSE, fs |-> f]
        ELSE IF e.t = "link"
        THEN IF e.to \in DOMAIN f.cand
             THEN [ok |-> TRUE, fs |-> [f EXCEPT !.cand[e.to] = TextFile(contents)]]
             ELSE [ok |-> FALSE, fs |-> f]
        ELSE [ok |-> TRUE, fs |-> WithEntry(f, path, PlainFile(contents))]

(***************************************************************************)
(* register_toolchain (lines 174-243)                                      *)
(***************************************************************************)

\* StatusSuccess with the exit status not looked at
StatusSuccess_Ignored(out) == TRUE

\* output.status.success() (line 187)
StatusSuccess(out) == out.exit = 0

\* TargetVersionString with the debug marker left out
TargetVersionString_NoDebug(name, info) ==
    IF IsSome(name)
    THEN Unwrap(name) \o <<"@">> \o info["python_version"]
    ELSE ToAsciiLowercase(info["python_implementation"])
         \o <<"@">> \o info["python_version"]

\* the key string put together from the label or the report (lines 193-203)
TargetVersionString(name, info) ==
    IF IsSome(name)
    THEN Unwrap(name) \o <<"@">> \o info["python_version"]
    ELSE ToAsciiLowercase(info["python_implementation"])
         \o (IF info["python_debug"] THEN <<"-", "d", "b", "g">> ELSE <<>>)
         \o <<"@">> \o info["python_version"]

\* TargetInUse with the directory test left out
TargetInUse_FileOnly(f, target) == IsFile(f, target)

\* TargetInUse with the whole test left out
TargetInUse_Never(f, target) == FALSE

\* target.is_file() || target.is_dir() (line 210)
TargetInUse(f, target) == IsFile(f, target) \/ IsDir(f, target)

\* the parent directory, best effort: the result is dropped (lines 215-217)
EnsureParent(f) == CreateDirAll(f).fs

\* path.as_os_str().to_str() (lines 234-235)
ToStr(path) == IF path = NonUnicodePath THEN None ELSE Some(path)

\* LinkInterpreter without the fallback of lines 231-239
LinkInterpreter_NoFallback(f, plat, priv, path, target) ==
    SymlinkFile(f, plat, priv, path, target)

\* LinkInterpreter with the fallback of lines 231-239 on unix too
LinkInterpreter_FallbackOnUnix(f, plat, priv, path, target) ==
    LET linked == SymlinkFile(f, plat, priv, path, target)
    IN  IF linked.ok THEN linked
        ELSE IF ToStr(path) = None THEN [ok |-> FALSE, fs |-> f]
        ELSE FsWrite(f, target, Unwrap(ToStr(path)))

\* remove_file and remove_dir_all of an entry that is_file or is_dir found
\* succeed: the directory that holds the entries is the registry's own.

\* the link step (lines 219-240): a symlink on unix; on windows a symlink
\* and, when that fails, the candidate path written into a plain file. A
\* path that is no Unicode cannot be written ("non unicode path to
\* interpreter"): the step fails with nothing written.
LinkInterpreter(f, plat, priv, path, target) ==
    LET linked == SymlinkFile(f, plat, priv, path, target)
    IN  IF plat = "unix" \/ linked.ok THEN linked
        ELSE IF ToStr(path) = None THEN [ok |-> FALSE, fs |-> f]
        ELSE FsWrite(f, target, Unwrap(ToStr(path)))

Failure(result, key, info, f) ==
    [result |-> result, key |-> key, info |-> info, fs |-> f]

\* RegisterToolchain with the test of line 210 ahead of the validate
\* callback of line 205
RegisterToolchain_ConflictFirst(f, plat, priv, out, path, name, accepts) ==
    LET output == Spawn(f, out, path)
    IN  IF ~output.ok THEN Failure("SpawnError", None, None, f)
        ELSE IF ~StatusSuccess(output) THEN Failure("StatusError", None, None, f)
        ELSE
        LET parsed == FromSlice(output.stdout)
        IN  IF ~parsed.ok THEN Failure("JsonError", None, None, f)
            ELSE
            LET info == parsed.info
                version == ParseVersion(TargetVersionString(name, info))
            IN  IF ~version.ok THEN Failure("KeyError", None, Some(info), f)
                ELSE
                LET target_version == version.value
                    key == Some(VersionToString(target_version))
                    target == get_canonical_py_path(target_version)
                IN  IF TargetInUse(f, target)
                    THEN Failure("ConflictError", key, Some(info), f)
                    ELSE IF ~accepts THEN Failure("ValidationError", key, Some(info), f)
                    ELSE
                    LET linked == LinkInterpreter(EnsureParent(f), plat, priv, path, target)
                    IN  IF ~linked.ok THEN Failure("LinkError", key, Some(info), linked.fs)
                        ELSE [result |-> "Ok", key |-> key, info |-> Some(info),
                              fs |-> linked.fs]

\* RegisterToolchain with the error of create_dir_all returned
\* (create_dir_all(parent)? at line 216)
RegisterToolchain_ParentSurfaced(f, plat, priv, out, path, name, accepts) ==
    LET output == Spawn(f, out, path)
    IN  IF ~output.ok THEN Failure("SpawnError", None, None, f)
        ELSE IF ~StatusSuccess(output) THEN Failure("StatusError", None, None, f)
        ELSE
        LET parsed == FromSlice(output.stdout)
        IN  IF ~parsed.ok THEN Failure("JsonError", None, None, f)
            ELSE
            LET info == parsed.info
                version == ParseVersion(TargetVersionString(name, info))
            IN  IF ~version.ok THEN Failure("KeyError", None, Some(info), f)
                ELSE
                LET target_version == version.value
                    key == Some(VersionToString(target_version))
                    target == get_canonical_py_path(target_version)
                IN  IF ~accepts THEN Failure("ValidationError", key, Some(info), f)
                    ELSE IF TargetInUse(f, target)
                    THEN Failure("ConflictError", key, Some(info), f)
                    ELSE IF ~CreateDirAll(f).ok
                    THEN Failure("IoError", key, Some(info), f)
                    ELSE
                    LET linked == LinkInterpreter(EnsureParent(f), plat, priv, path, target)
                    IN  IF ~linked.ok THEN Failure("LinkError", key, Some(info), linked.fs)
                        ELSE [result |-> "Ok", key |-> key, info |-> Some(info),
                              fs |-> linked.fs]

\* register_toolchain(path, name, validate), where accepts says whether the
\* validate callback returns Ok for the derived key
RegisterToolchain(f, plat, priv, out, path, name, accepts) ==
    LET output == Spawn(f, out, path)
    IN  IF ~output.ok THEN Failure("SpawnError", None, None, f)
        ELSE IF ~StatusSuccess(output) THEN Failure("StatusError", None, None, f)
        ELSE
        LET parsed == FromSlice(output.stdout)
        IN  IF ~parsed.ok THEN Failure("JsonError", None, None, f)
            ELSE
            LET info == parsed.info
                version == ParseVersion(TargetVersionString(name, info))
            IN  IF ~version.ok THEN Failure("KeyError", None, Some(info), f)
                ELSE
                LET target_version == version.value
                    key == Some(VersionToString(target_version))
                    target == get_canonical_py_path(target_version)
                IN  IF ~accepts THEN Failure("ValidationError", key, Some(info), f)
                    ELSE IF TargetInUse(f, target)
                    THEN Failure("ConflictError", key, Some(info), f)
                    ELSE
                    LET linked == LinkInterpreter(EnsureParent(f), plat, priv, path, target)
                    IN  IF ~linked.ok THEN Failure("LinkError", key, Some(info), linked.fs)
                        ELSE [result |-> "Ok", key |-> key, info |-> Some(info),
                              fs |-> linked.fs]

NotReached(f) == [reached |-> FALSE, key |-> None, fs |-> f]

\* RegisterUpToLink with the directory made at the target itself
\* (create_dir_all(&target))
RegisterUpToLink_TargetCreated(f, out, path, name, accepts) ==
    LET output == Spawn(f, out, path)
    IN  IF ~output.ok \/ ~StatusSuccess(output) THEN NotReached(f)
        ELSE
        LET parsed == FromSlice(output.stdout)
        IN  IF ~parsed.ok THEN NotReached(f)
            ELSE
            LET version == ParseVersion(TargetVersionString(name, parsed.info))
            IN  IF ~version.ok \/ ~accepts THEN NotReached(f)
                ELSE
                LET target == get_canonical_py_path(version.value)
                IN  IF TargetInUse(f, target) THEN NotReached(f)
                    ELSE [reached |-> TRUE,
                          key |-> Some(VersionToString(version.value)),
                          fs |-> IF CreateDirAll(f).ok
                                 THEN WithEntry(EnsureParent(f), target, Directory)
                                 ELSE f]

\* register_toolchain up to the link step (lines 182-217): whether a run
\* gets there, with which key, and the filesystem it has left by then
RegisterUpToLink(f, out, path, name, accepts) ==
    LET output == Spawn(f, out, path)
    IN  IF ~output.ok \/ ~StatusSuccess(output) THEN NotReached(f)
        ELSE
        LET parsed == FromSlice(output.stdout)
        IN  IF ~parsed.ok THEN NotReached(f)
            ELSE
            LET version == ParseVersion(TargetVersionString(name, parsed.info))
            IN  IF ~version.ok \/ ~accepts THEN NotReached(f)
                ELSE
                LET target == get_canonical_py_path(version.value)
                IN  IF TargetInUse(f, target) THEN NotReached(f)
                    ELSE [reached |-> TRUE,
                          key |-> Some(VersionToString(version.value)),
                          fs |-> EnsureParent(f)]

\* register_toolchain up to get_canonical_py_path (lines 182-208): the key a
\* run derives and its canonical path, if it gets that far
DeriveKey(f, out, path, name, accepts) ==
    LET output == Spawn(f, out, path)
    IN  IF ~output.ok \/ ~StatusSuccess(output) THEN [ok |-> FALSE]
        ELSE
        LET parsed == FromSlice(output.stdout)
        IN  IF ~parsed.ok THEN [ok |-> FALSE]
            ELSE
            LET version == ParseVersion(TargetVersionString(name, parsed.info))
            IN  IF ~version.ok \/ ~accepts THEN [ok |-> FALSE]
                ELSE [ok |-> TRUE, key |-> VersionToString(version.value),
                      target |-> get_canonical_py_path(version.value)]

(***************************************************************************)
(* remove (lines 106-119)                                                  *)
(***************************************************************************)

\* RemoveToolchain with an absent toolchain reported as an error
RemoveToolchain_Strict(f, version) ==
    LET ver == ParseVersion(version)
    IN  IF ~ver.ok THEN [result |-> "ParseError", message |-> None, fs |-> f]
        ELSE
        LET path == get_canonical_py_path(ver.value)
        IN  IF IsFile(f, path)
            THEN [result |-> "Ok", message |-> Some("Removed toolchain link"),
                  fs |-> WithoutEntry(f, path)]
            ELSE IF IsDir(f, path)
            THEN [result |-> "Ok", message |-> Some("Removed installed toolchain"),
                  fs |-> WithoutEntry(f, path)]
            ELSE [result |-> "NotInstalledError", message |-> None, fs |-> f]

\* RemoveToolchain with fs::remove_dir in place of fs::remove_dir_all: a
\* directory that is not empty is not deleted
RemoveToolchain_RemoveDir(f, version) ==
    LET ver == ParseVersion(version)
    IN  IF ~ver.ok THEN [result |-> "ParseError", message |-> None, fs |-> f]
        ELSE
        LET path == get_canonical_py_path(ver.value)
        IN  IF IsFile(f, path)
            THEN [result |-> "Ok", message |-> Some("Removed toolchain link"),
                  fs |-> WithoutEntry(f, path)]
            ELSE IF IsDir(f, path)
            THEN [result |-> "IoError", message |-> None, fs |-> f]
            ELSE [result |-> "Ok", message |-> Some("Toolchain is not installed"),
                  fs |-> f]

\* remove(cmd)
RemoveToolchain(f, version) ==
    LET ver == ParseVersion(version)
    IN  IF ~ver.ok THEN [result |-> "ParseError", message |-> None, fs |-> f]
        ELSE
        LET path == get_canonical_py_path(ver.value)
        IN  IF IsFile(f, path)
            THEN [result |-> "Ok", message |-> Some("Removed toolchain link"),
                  fs |-> WithoutEntry(f, path)]
            ELSE IF IsDir(f, path)
            THEN [result |-> "Ok", message |-> Some("Removed installed toolchain"),
                  fs |-> WithoutEntry(f, path)]
            ELSE [result |-> "Ok", message |-> Some("Toolchain is not installed"),
                  fs |-> f]

(***************************************************************************)
(* list (lines 121-172)                                                    *)
(***************************************************************************)

Version(kind, major, minor, patch) ==
    [kind |-> kind, major |-> major, minor |-> minor, patch |-> patch]

Str_cpython == <<"c", "p", "y", "t", "h", "o", "n">>
Str_pypy == <<"p", "y", "p", "y">>

\* the versions iter_downloadable(OS, ARCH) can offer
CatalogVersions ==
    {Version(Str_cpython, 3, 9, 0), Version(Str_cpython, 3, 11, 4),
     Version(Str_pypy, 3, 9, 0)}

\* list_known_toolchains(): every entry of the toolchain directory, as
\* (version, path)
list_known_toolchains(f) ==
    {<<ParseVersion(n).value, <<PyDir, n>>>> : n \in DOMAIN f.node}

\* .map(|(version, path)| (version, Some(path))).collect::<HashMap>() (133-136)
InstalledMap(f) ==
    LET known == list_known_toolchains(f)
    IN  [v \in {e[1] : e \in known} |->
           Some((CHOOSE e \in known : e[1] = v)[2])]

\* OrInsertNone as toolchains.insert(version, None)
OrInsertNone_Overwrite(toolchains, version) ==
    [v \in DOMAIN toolchains \cup {version} |->
        IF v = version THEN None ELSE toolchains[v]]

\* toolchains.entry(version).or_insert(None) (line 140)
OrInsertNone(toolchains, version) ==
    IF version \in DOMAIN toolchains THEN toolchains
    ELSE [v \in DOMAIN toolchains \cup {version} |->
            IF v = version THEN None ELSE toolchains[v]]

\* for version in iter_downloadable(OS, ARCH) { ... } (lines 139-141)
RECURSIVE InsertDownloadable(_, _)
InsertDownloadable(toolchains, catalog) ==
    IF catalog = <<>> THEN toolchains
    ELSE InsertDownloadable(OrInsertNone(toolchains, Head(catalog)), Tail(catalog))

\* Ord of (PythonVersion, Option<PathBuf>); two entries of a map never share
\* the version, so the paths of two Some are never compared
EntryLess(a, b) ==
    IF a[1] # b[1] THEN VersionLess(a[1], b[1])
    ELSE a[2] = None /\ b[2] # None

\* SortKeyLess without the Reverse
SortKeyLess_NoReverse(a, b) ==
    IF (a[2] = None) # (b[2] = None) THEN b[2] = None
    ELSE IF a[1].kind # b[1].kind THEN StrLess(a[1].kind, b[1].kind)
    ELSE EntryLess(a, b)

\* the order of the sort key (a.1.is_none(), a.0.kind.to_string(),
\* Reverse(a.clone())) (line 145)
SortKeyLess(a, b) ==
    IF (a[2] = None) # (b[2] = None) THEN b[2] = None
    ELSE IF a[1].kind # b[1].kind THEN StrLess(a[1].kind, b[1].kind)
    ELSE EntryLess(b, a)

\* versions.sort_by_cached_key(...) over the entries of the map (144-145)
RECURSIVE Sorted(_)
Sorted(entries) ==
    IF entries = {} THEN <<>>
    ELSE LET first == CHOOSE a \in entries :
                         \A b \in entries \ {a} : ~SortKeyLess(b, a)
         IN  <<first>> \o Sorted(entries \ {first})

\* ListVersion with downloadable always set
ListVersion_AlwaysFlag(version, path) ==
    [name |-> version,
     downloadable |-> Some(path = None),
     path |-> path]

\* ListVersion { name, downloadable, path } (lines 150-154)
ListVersion(version, path) ==
    [name |-> version,
     downloadable |-> IF path = None THEN Some(TRUE) ELSE None,
     path |-> path]

\* Serialize of ListVersion: skip_serializing_if = "Option::is_none" on path
\* and downloadable (lines 123-130); the JSON object, field name to value
SerializeListVersion(lv) ==
    [k \in {"name"} \cup (IF lv.path = None THEN {} ELSE {"path"})
                    \cup (IF lv.downloadable = None THEN {} ELSE {"downloadable"}) |->
        IF k = "name" THEN VersionToString(lv.name)
        ELSE IF k = "path" THEN Unwrap(lv.path)
        ELSE Unwrap(lv.downloadable)]

\* the line printed for an entry without --format (lines 159-169)
TextLine(version, path) ==
    IF path # None
    THEN [text |-> VersionToString(version), path |-> path, note |-> None]
    ELSE [text |-> VersionToString(version), path |-> None,
          note |-> Some("(downloadable)")]

\* list(cmd): the sorted entries and what is written to standard output
ListToolchains(f, include_downloadable, format, catalog) ==
    LET installed == InstalledMap(f)
        toolchains == IF include_downloadable
                      THEN InsertDownloadable(installed, catalog)
                      ELSE installed
        versions == Sorted({<<v, toolchains[v]>> : v \in DOMAIN toolchains})
    IN  [versions |-> versions,
         output |-> IF format = Some("json")
                    THEN [i \in DOMAIN versions |->
                            SerializeListVersion(ListVersion(versions[i][1], versions[i][2]))]
                    ELSE [i \in DOMAIN versions |->
                            TextLine(versions[i][1], versions[i][2])]]

(***************************************************************************)
(* Bounds                                                                  *)
(***************************************************************************)

\* entries the toolchain directory holds at most
MaxEntries == 2

\* versions a catalog lists at most (with repetitions)
MaxCatalog == 2

\* entries of a directory that is listed against every catalog
MaxListed == 3

\* members of a JSON object, and items of a JSON array, a candidate prints
MaxMembers == 4

\* calls of register_toolchain under way at once
MaxRuns == 2

(***************************************************************************)
(* The state machine: one command at a time (execute, lines 91-98)         *)
(***************************************************************************)

EmptyFs(parent) ==
    [parent |-> parent,
     node |-> [n \in {} |-> NoEntry],
     cand |-> [p \in DOMAIN Interpreters |-> Program]]

\* no command is running
Idle == [op |-> "idle"]

\* no register_toolchain is under way step by step
NoRuns == <<>>

\* the catalog of this build
DefaultCatalog ==
    <<Version(Str_cpython, 3, 9, 0), Version(Str_pypy, 3, 9, 0),
      Version(Str_cpython, 3, 11, 4)>>

\* nothing registered or fetched yet; the toolchain directory is still to be
\* created, or cannot be
Init ==
    /\ platform \in {"unix", "windows"}
    /\ privileged \in (IF platform = "unix" THEN {TRUE} ELSE BOOLEAN)
    /\ probe = Garbage
    /\ downloadable = DefaultCatalog
    /\ fs \in {EmptyFs("absent"), EmptyFs("blocked")}
    /\ before = fs
    /\ last = Idle
    /\ run = NoRuns

RegisterAs(path, name, accepts) ==
    LET r == RegisterToolchain(fs, platform, privileged, probe, path, name, accepts)
    IN  /\ last.op = "idle"
        /\ Cardinality(DOMAIN r.fs.node) <= MaxEntries
        /\ fs' = r.fs
        /\ before' = fs
        /\ last' = [op |-> "register", path |-> path, name |-> name,
                    accepts |-> accepts, result |-> r.result, key |-> r.key,
                    info |-> r.info]
        /\ UNCHANGED <<platform, privileged, probe, downloadable, run>>

\* rye toolchain register, and the other callers of register_toolchain
Register ==
    \E path \in Paths, name \in Labels, accepts \in BOOLEAN :
        RegisterAs(path, name, accepts)

\* the strings remove is called with: what is there, what could be, and
\* strings that are no key
RemoveArguments ==
    DOMAIN fs.node
    \cup {VersionToString(v) : v \in CatalogVersions}
    \cup {Str_cpython, Str_Dev \o <<"@">> \o Str_Alpha}

\* rye toolchain remove
Remove ==
    \E version \in RemoveArguments :
        LET r == RemoveToolchain(fs, version)
        IN  /\ last.op = "idle"
            /\ fs' = r.fs
            /\ before' = fs
            /\ last' = [op |-> "remove", version |-> version, result |-> r.result,
                        message |-> r.message, again |-> None]
            /\ UNCHANGED <<platform, privileged, probe, downloadable, run>>

\* rye toolchain remove once more with the same argument, right after a remove
\* returned; again keeps what the call before did
RemoveAgain ==
    LET r == RemoveToolchain(fs, last.version)
    IN  /\ last.op = "remove"
        /\ last.again = None
        /\ fs' = r.fs
        /\ before' = fs
        /\ last' = [op |-> "remove", version |-> last.version, result |-> r.result,
                    message |-> r.message,
                    again |-> Some([result |-> last.result, message |-> last.message])]
        /\ UNCHANGED <<platform, privileged, probe, downloadable, run>>

\* a run of register_toolchain that is killed between create_dir_all and
\* the link step
RegisterStop ==
    \E path \in Paths, name \in Labels :
        LET r == RegisterUpToLink(fs, probe, path, name, TRUE)
        IN  /\ last.op = "idle"
            /\ r.reached
            /\ fs' = r.fs
            /\ before' = fs
            /\ last' = [op |-> "register_stopped", path |-> path, name |-> name,
                        key |-> r.key]
            /\ UNCHANGED <<platform, privileged, probe, downloadable, run>>

\* the same register_toolchain called again after the killed run; origin is
\* the filesystem the killed run had started on
RegisterRetry ==
    LET r == RegisterToolchain(fs, platform, privileged, probe, last.path,
                               last.name, TRUE)
    IN  /\ last.op = "register_stopped"
        /\ Cardinality(DOMAIN r.fs.node) <= MaxEntries
        /\ fs' = r.fs
        /\ before' = fs
        /\ last' = [op |-> "register_retry", path |-> last.path, name |-> last.name,
                    result |-> r.result, key |-> r.key, origin |-> before]
        /\ UNCHANGED <<platform, privileged, probe, downloadable, run>>

\* rye toolchain remove of a directory toolchain, killed while
\* fs::remove_dir_all (line 113) is deleting the tree
RemoveStop ==
    \E version \in RemoveArguments :
        LET ver == ParseVersion(version)
            path == get_canonical_py_path(ver.value)
        IN  /\ last.op = "idle"
            /\ ver.ok
            /\ ~IsFile(fs, path)
            /\ IsDir(fs, path)
            /\ fs' = WithEntry(fs, path, PartlyDeleted)
            /\ before' = fs
            /\ last' = [op |-> "remove_stopped", version |-> version]
            /\ UNCHANGED <<platform, privileged, probe, downloadable, run>>

\* rye toolchain remove with the same argument after the killed run
RemoveRetry ==
    LET r == RemoveToolchain(fs, last.version)
    IN  /\ last.op = "remove_stopped"
        /\ fs' = r.fs
        /\ before' = fs
        /\ last' = [op |-> "remove_retry", version |-> last.version,
                    result |-> r.result, message |-> r.message]
        /\ UNCHANGED <<platform, privileged, probe, downloadable, run>>

\* register_toolchain called right after a remove returned Ok, for a
\* candidate that derives the key that was removed
RegisterAfterRemove ==
    \E path \in Paths, name \in Labels :
        LET d == DeriveKey(fs, probe, path, name, TRUE)
            r == RegisterToolchain(fs, platform, privileged, probe, path, name, TRUE)
        IN  /\ last.op = "remove"
            /\ last.result = "Ok"
            /\ d.ok
            /\ d.target = get_canonical_py_path(ParseVersion(last.version).value)
            /\ Cardinality(DOMAIN r.fs.node) <= MaxEntries
            /\ fs' = r.fs
            /\ before' = fs
            /\ last' = [op |-> "register_after_remove", path |-> path, name |-> name,
                        result |-> r.result, key |-> r.key, removed |-> last.message]
            /\ UNCHANGED <<platform, privileged, probe, downloadable, run>>

\* register_toolchain called once more with the same candidate, label and
\* callback right after it returned a key
RegisterAgain ==
    LET r == RegisterToolchain(fs, platform, privileged, probe, last.path,
                               last.name, last.accepts)
    IN  /\ last.op = "register"
        /\ last.result = "Ok"
        /\ fs' = r.fs
        /\ before' = fs
        /\ last' = [op |-> "register_again", path |-> last.path, name |-> last.name,
                    result |-> r.result, key |-> r.key]
        /\ UNCHANGED <<platform, privileged, probe, downloadable, run>>

\* rye toolchain list
List ==
    \E include_downloadable \in BOOLEAN, format \in {None, Some("json")} :
        LET r == ListToolchains(fs, include_downloadable, format, downloadable)
        IN  /\ last.op = "idle"
            /\ before' = fs
            /\ last' = [op |-> "list",
                        include_downloadable |-> include_downloadable,
                        format |-> format,
                        versions |-> r.versions, output |-> r.output]
            /\ UNCHANGED <<platform, privileged, probe, downloadable, fs, run>>

\* the outcome of the last command has been taken note of; a remove that
\* was killed is called again before anything else is done
Exit ==
    /\ last.op \notin {"idle", "remove_stopped"}
    /\ last' = Idle
    /\ before' = fs
    /\ UNCHANGED <<platform, privileged, probe, downloadable, fs, run>>

\* the fetch collaborator unpacks a downloaded toolchain into its canonical
\* directory
Fetch ==
    \E v \in CatalogVersions :
        LET made == CreateDirAll(fs)
            target == get_canonical_py_path(v)
        IN  /\ last.op = "idle"
            /\ made.ok
            /\ Entry(fs, target).t = "none"
            /\ Cardinality(DOMAIN fs.node) < MaxEntries
            /\ fs' = WithEntry(made.fs, target, Directory)
            /\ before' = fs'
            /\ last' = Idle
            /\ UNCHANGED <<platform, privileged, probe, downloadable, run>>

\* an interpreter some entry links to is uninstalled
Uninstall ==
    \E p \in DOMAIN fs.cand :
        /\ last.op = "idle"
        /\ fs.cand[p].t = "program"
        /\ \E n \in DOMAIN fs.node : fs.node[n] = Link(p)
        /\ fs' = [fs EXCEPT !.cand[p] = Absent]
        /\ before' = fs'
        /\ last' = Idle
        /\ UNCHANGED <<platform, privileged, probe, downloadable, run>>

Next ==
    \/ Register \/ RegisterAgain \/ RegisterStop \/ RegisterRetry
    \/ RegisterAfterRemove
    \/ Remove \/ RemoveAgain \/ RemoveStop \/ RemoveRetry
    \/ List \/ Exit \/ Fetch \/ Uninstall

Spec == Init /\ [][Next]_vars

(***************************************************************************)
(* list over every directory and every catalog                             *)
(***************************************************************************)

RECURSIVE SeqsUpTo(_, _)
SeqsUpTo(S, n) ==
    IF n = 0 THEN {<<>>}
    ELSE LET shorter == SeqsUpTo(S, n - 1)
         IN  shorter \cup {Append(q, x) : q \in shorter, x \in S}

\* what iter_downloadable may yield: any versions, in any order, repeated or not
Catalogs == SeqsUpTo(CatalogVersions, MaxCatalog)

\* the key a registration of an interpreter under a label ends up with
KeyOf(path, name) ==
    TargetVersionString(name, FromSlice(Interpreters[path].stdout).info)

RegisteredNames ==
    {KeyOf(p, l) : p \in DOMAIN Interpreters, l \in {None, Some(Str_Dev)}}

FetchedNames == {VersionToString(v) : v \in CatalogVersions}

\* a toolchain directory holding the entries named: a fetched directory
\* under a catalog name, else a link to an interpreter registered as that
DirectoryWith(names) ==
    [parent |-> "dir",
     node |-> [n \in names |->
                 IF n \in FetchedNames THEN Directory
                 ELSE Link(CHOOSE p \in DOMAIN Interpreters :
                             \E l \in {None, Some(Str_Dev)} : KeyOf(p, l) = n)],
     cand |-> [p \in DOMAIN Interpreters |-> Program]]

ListedDirectories ==
    {DirectoryWith(names) : names \in
        {S \in SUBSET (RegisteredNames \cup FetchedNames) : Cardinality(S) <= MaxListed}}

InitList ==
    /\ platform = "unix"
    /\ privileged = TRUE
    /\ probe = Garbage
    /\ downloadable \in Catalogs
    /\ fs \in ListedDirectories
    /\ before = fs
    /\ last = Idle
    /\ run = NoRuns

NextList == List \/ Exit

SpecList == InitList /\ [][NextList]_vars

(***************************************************************************)
(* register_toolchain over everything a candidate may print                *)
(***************************************************************************)

\* a member of a printed object: a field of the report with a value of its
\* type or of another, or a member the report does not have
PrintedMembers ==
    { <<"python_implementation", JString(Str_CPython)>>,
      <<"python_implementation", JNull>>,
      <<"python_version", JString(Str_390)>>,
      <<"python_version", JNumber>>,
      <<"python_debug", JBool(FALSE)>>,
      <<"python_debug", JNumber>>,
      <<"python_compiler", JString(Str_CPython)>> }

PrintedItems == {JString(Str_CPython), JString(Str_390), JBool(FALSE), JNumber}

ProbeOutputs ==
    {Garbage, Json(<<>>), Json(<<JString(Str_390)>>), Json(<<JNull>>),
     Json(<<InspectOutput(Str_CPython, Str_390, FALSE).values[1],
            InspectOutput(Str_CPython, Str_390, FALSE).values[1]>>)}
    \cup {Json(<<JObject(m)>>) : m \in SeqsUpTo(PrintedMembers, MaxMembers)}
    \cup {Json(<<JArray(a)>>) : a \in SeqsUpTo(PrintedItems, MaxMembers)}

InitInspect ==
    /\ platform = "unix"
    /\ privileged = TRUE
    /\ probe \in ProbeOutputs
    /\ downloadable = DefaultCatalog
    /\ fs = EmptyFs("absent")
    /\ before = fs
    /\ last = Idle
    /\ run = NoRuns

\* register_toolchain on the candidate whose output is under test
RegisterProbe ==
    \E name \in Labels, accepts \in BOOLEAN : RegisterAs(ProbePath, name, accepts)

NextInspect == RegisterProbe \/ Exit

SpecInspect == InitInspect /\ [][NextInspect]_vars

(***************************************************************************)
(* register_toolchain step by step, several calls at once: nothing locks   *)
(* the toolchain directory, so the steps of two processes interleave       *)
(***************************************************************************)

\* a call of register_toolchain that derives the key the others under way
\* have derived; it stands before the test of line 210
Begin ==
    \E path \in Paths, name \in Labels :
        LET d == DeriveKey(fs, probe, path, name, TRUE)
        IN  /\ Len(run) < MaxRuns
            /\ d.ok
            /\ \A i \in DOMAIN run : run[i].key = d.key
            /\ run' = Append(run, [pc |-> "check", path |-> path, name |-> name,
                                   key |-> d.key, target |-> d.target,
                                   result |-> "Running"])
            /\ UNCHANGED <<platform, privileged, probe, downloadable, fs, before, last>>

\* target.is_file() || target.is_dir() (lines 210-212)
CheckStep ==
    \E i \in DOMAIN run :
        /\ run[i].pc = "check"
        /\ run' = IF TargetInUse(fs, run[i].target)
                  THEN [run EXCEPT ![i].pc = "done", ![i].result = "ConflictError"]
                  ELSE [run EXCEPT ![i].pc = "mkdir"]
        /\ UNCHANGED <<platform, privileged, probe, downloadable, fs, before, last>>

\* fs::create_dir_all(parent).ok() (lines 215-217)
MkdirStep ==
    \E i \in DOMAIN run :
        /\ run[i].pc = "mkdir"
        /\ fs' = EnsureParent(fs)
        /\ run' = [run EXCEPT ![i].pc = "symlink"]
        /\ UNCHANGED <<platform, privileged, probe, downloadable, before, last>>

\* symlink_file(path, target) (line 222 on unix, line 231 on windows)
SymlinkStep ==
    \E i \in DOMAIN run :
        LET linked == SymlinkFile(fs, platform, privileged, run[i].path,
                                  run[i].target)
        IN  /\ run[i].pc = "symlink"
            /\ fs' = linked.fs
            /\ run' = IF linked.ok
                      THEN [run EXCEPT ![i].pc = "done", ![i].result = "Ok"]
                      ELSE IF platform = "unix"
                      THEN [run EXCEPT ![i].pc = "done", ![i].result = "LinkError"]
                      ELSE [run EXCEPT ![i].pc = "write"]
            /\ UNCHANGED <<platform, privileged, probe, downloadable, before, last>>

\* fs::write(&target, path...) of the fallback (lines 232-238)
WriteStep ==
    \E i \in DOMAIN run :
        LET written == IF ToStr(run[i].path) = None THEN [ok |-> FALSE, fs |-> fs]
                       ELSE FsWrite(fs, run[i].target, Unwrap(ToStr(run[i].path)))
        IN  /\ run[i].pc = "write"
            /\ fs' = written.fs
            /\ run' = [run EXCEPT ![i].pc = "done",
                                  ![i].result = IF written.ok THEN "Ok" ELSE "LinkError"]
            /\ UNCHANGED <<platform, privileged, probe, downloadable, before, last>>

\* the toolchain directory the racing calls start on: not there yet, not
\* creatable, or there with nothing registered
InitRace ==
    /\ platform \in {"unix", "windows"}
    /\ privileged \in (IF platform = "unix" THEN {TRUE} ELSE BOOLEAN)
    /\ probe = Garbage
    /\ downloadable = DefaultCatalog
    /\ fs \in {EmptyFs("absent"), EmptyFs("blocked"), EmptyFs("dir")}
    /\ before = fs
    /\ last = Idle
    /\ run = NoRuns

NextRace == Begin \/ CheckStep \/ MkdirStep \/ SymlinkStep \/ WriteStep

SpecRace == InitRace /\ [][NextRace]_vars

(***************************************************************************)
(* Properties                                                              *)
(***************************************************************************)

TargetOf(key) == <<PyDir, key>>

\* the canonical path of key holds a file or a directory, as is_file and
\* is_dir see it: a plain file, a directory, or a link to a file that exists
HoldsFileOrDirectory(f, key) ==
    LET e == Entry(f, TargetOf(key))
    IN  e.t = "file" \/ e.t = "dir" \/ (e.t = "link" /\ Exists(f, e.to))

IntrospectionFails(f, out, path) ==
    LET output == Spawn(f, out, path)
    IN  \/ ~output.ok
        \/ output.exit # 0
        \/ ~FromSlice(output.stdout).ok

\* C2: when introspection of the candidate fails, register_toolchain returns
\* an error without a key and the filesystem is as it was: no parent
\* directory, no link, no shim.
C2_PreMutationFailure ==
    (/\ last.op = "register"
     /\ IntrospectionFails(before, probe, last.path))
    => (/\ last.result \in {"SpawnError", "StatusError", "JsonError"}
        /\ last.key = None
        /\ fs = before)

\* a candidate that reports a version and then exits with status 1, tried
\* before the toolchain directory exists
C2_Witness ==
    /\ last.op = "register"
    /\ last.path = BrokenPath
    /\ last.result = "StatusError"
    /\ before.parent = "absent"
    /\ fs.parent = "absent"
    /\ DOMAIN fs.node = {}

\* C3: the listing holds no version twice, and every entry of the toolchain
\* directory is listed with its path and not as downloadable, whatever the
\* catalog repeats or shares with the directory.
C3_ListingUnique ==
    last.op = "list" =>
        /\ \A i, j \in DOMAIN last.versions :
              last.versions[i][1] = last.versions[j][1] => i = j
        /\ \A n \in DOMAIN before.node :
              \E i \in DOMAIN last.versions :
                  /\ VersionToString(last.versions[i][1]) = n
                  /\ last.versions[i][2] = Some(TargetOf(n))
        /\ \A i \in DOMAIN last.versions :
              VersionToString(last.versions[i][1]) \in DOMAIN before.node =>
                  /\ last.versions[i][2] # None
                  /\ IF last.format = Some("json")
                     THEN "downloadable" \notin DOMAIN last.output[i]
                     ELSE last.output[i].note = None

\* a listing against a catalog that names an installed version twice
C3_Witness ==
    /\ last.op = "list"
    /\ last.include_downloadable
    /\ \E i, j \in DOMAIN downloadable :
          /\ i # j
          /\ downloadable[i] = downloadable[j]
          /\ VersionToString(downloadable[i]) \in DOMAIN before.node
    /\ Len(last.versions) = Cardinality(DOMAIN before.node)

\* a is the more recent version
Newer(a, b) ==
    \/ a.major > b.major
    \/ a.major = b.major /\ a.minor > b.minor
    \/ a.major = b.major /\ a.minor = b.minor /\ a.patch > b.patch

\* entry a is listed before entry b
ListedBefore(a, b) ==
    IF (a[2] # None) # (b[2] # None) THEN a[2] # None
    ELSE IF a[1].kind # b[1].kind THEN StrLess(a[1].kind, b[1].kind)
    ELSE Newer(a[1], b[1])

LowerCased(impl) ==
    CASE impl = Str_CPython -> Str_cpython
      [] impl = Str_PyPy -> Str_pypy

\* the key the naming rule gives
ExpectedKey(name, info) ==
    IF name # None
    THEN Unwrap(name) \o <<"@">> \o info["python_version"]
    ELSE LowerCased(info["python_implementation"])
         \o (IF info["python_debug"] THEN <<"-", "d", "b", "g">> ELSE <<>>)
         \o <<"@">> \o info["python_version"]

\* C5: the key register_toolchain derives is <label>@<version> under a label,
\* whatever the implementation and the debug flag, and otherwise the
\* lower-cased implementation, then -dbg iff the debug flag is set, then
\* @<version>.
C5_DerivedNaming ==
    (last.op = "register" /\ last.key # None)
    => Unwrap(last.key) = ExpectedKey(last.name, Unwrap(last.info))

\* a debug build of CPython 3.9.0 registered without a label
C5_Witness ==
    /\ last.op = "register"
    /\ last.path = CPythonDbgPath
    /\ last.name = None
    /\ last.result = "Ok"
    /\ last.key = Some(Str_cpython \o <<"-", "d", "b", "g", "@">> \o Str_390)

\* C6: a remove called again on the same well-formed key, right after a
\* remove of it returned, returns success and leaves the filesystem as the
\* first call left it.
C6_IdempotentRemoval ==
    (/\ last.op = "remove"
     /\ last.again # None
     /\ ParseVersion(last.version).ok)
    => (last.result = "Ok" /\ fs = before)

\* the second of two removes, the first of which deleted a link
C6_Witness ==
    /\ last.op = "remove"
    /\ last.again # None
    /\ Unwrap(last.again).message = Some("Removed toolchain link")
    /\ last.result = "Ok"
    /\ last.message = Some("Toolchain is not installed")
    /\ fs = before

\* the type each field of the introspection record has
RecordType(field) ==
    CASE field = "python_implementation" -> "string"
      [] field = "python_version" -> "string"
      [] field = "python_debug" -> "bool"

RecordFields == {"python_implementation", "python_version", "python_debug"}

\* members holds every field of the record once, with a value of its type
HoldsRecordFields(members) ==
    \A field \in RecordFields :
        /\ Cardinality({i \in DOMAIN members : members[i][1] = field}) = 1
        /\ \A i \in DOMAIN members :
              members[i][1] = field => members[i][2].j = RecordType(field)

\* one record with exactly the three fields, each of its type
ExactRecord(out) ==
    /\ out.json
    /\ Len(out.values) = 1
    /\ out.values[1].j = "object"
    /\ Len(out.values[1].members) = 3
    /\ HoldsRecordFields(out.values[1].members)

\* one record with the three fields, each once and of its type, among
\* whatever other members; or one array of the three values in order
AcceptedShape(out) ==
    /\ out.json
    /\ Len(out.values) = 1
    /\ \/ /\ out.values[1].j = "object"
          /\ HoldsRecordFields(out.values[1].members)
       \/ /\ out.values[1].j = "array"
          /\ Len(out.values[1].items) = 3
          /\ out.values[1].items[1].j = "string"
          /\ out.values[1].items[2].j = "string"
          /\ out.values[1].items[3].j = "bool"

\* C7 as stated: register_toolchain gets past deserialisation only for a
\* single record with exactly the three typed fields, and fails with the
\* parse error on anything else.
C7_ExactlyThreeFields ==
    (last.op = "register" /\ last.path = ProbePath)
    => (last.result # "JsonError" <=> ExactRecord(probe))

\* C7, amended: register_toolchain gets past deserialisation exactly when
\* standard output is one JSON value that is a record holding each of the
\* three fields once and of its type (other members are skipped) or an
\* array of the three values in declaration order; on anything else it
\* fails with the parse error.
C7_OutputShape ==
    (last.op = "register" /\ last.path = ProbePath)
    => (last.result # "JsonError" <=> AcceptedShape(probe))

\* a candidate registered although its record has a fourth member
C7_Witness ==
    /\ last.op = "register"
    /\ last.path = ProbePath
    /\ last.result = "Ok"
    /\ probe.values[1].j = "object"
    /\ Len(probe.values[1].members) = 4
    /\ \E i \in 1..4 : probe.values[1].members[i][1] = "python_compiler"

\* what reading the file at a canonical path gives: the text of a plain
\* file, also through a link
ReadToString(f, path) ==
    LET e == Entry(f, path)
    IN  IF e.t = "file" THEN Some(e.text)
        ELSE IF e.t = "link" /\ e.to \in DOMAIN f.cand /\ f.cand[e.to].t = "text"
        THEN Some(f.cand[e.to].text)
        ELSE None

\* the link step was reached, the symbolic link could not be made and the
\* write of the fallback went through
FallbackTaken ==
    /\ last.op = "register"
    /\ platform = "windows"
    /\ last.result \in {"Ok", "LinkError"}
    /\ LET f == CreateDirAll(before).fs
           target == TargetOf(Unwrap(last.key))
       IN  /\ ~SymlinkFile(f, platform, privileged, last.path, target).ok
           /\ ToStr(last.path) # None
           /\ FsWrite(f, target, last.path).ok

C9_JsonFields ==
    (last.op = "list" /\ last.format = Some("json")) =>
        \A i \in DOMAIN last.output :
            LET record == last.output[i]
                installed == record["name"] \in DOMAIN before.node
            IN  /\ ("path" \in DOMAIN record) # ("downloadable" \in DOMAIN record)
                /\ ("path" \in DOMAIN record) <=> installed
                /\ ("downloadable" \in DOMAIN record) => record["downloadable"] = TRUE

\* a JSON listing with an installed and a downloadable record
C9_Witness ==
    /\ last.op = "list"
    /\ last.format = Some("json")
    /\ \E i, j \in DOMAIN last.output :
          /\ DOMAIN last.output[i] = {"name", "path"}
          /\ DOMAIN last.output[j] = {"name", "downloadable"}
          /\ last.output[j]["downloadable"] = TRUE

\* C10: whatever occupies a canonical target stays as it is through every
\* register, list and remove, except a remove of that very key.
C10_NeverReplaced ==
    last.op \in {"register", "remove", "list"} =>
        \A n \in DOMAIN before.node :
            \/ last.op = "remove" /\ last.version = n
            \/ n \in DOMAIN fs.node /\ fs.node[n] = before.node[n]

\* a second candidate registered under a key whose target is the shim of
\* another candidate: refused, the shim as it was
C10_Witness ==
    /\ last.op = "register"
    /\ last.key # None
    /\ last.accepts
    /\ Entry(before, TargetOf(Unwrap(last.key))).t = "file"
    /\ Entry(before, TargetOf(Unwrap(last.key))).text # last.path
    /\ Entry(fs, TargetOf(Unwrap(last.key))) = Entry(before, TargetOf(Unwrap(last.key)))

\* C11: the validate callback is called with the derived key once
\* introspection and key derivation went through, and ahead of the conflict
\* test and of every filesystem step: when it rejects, register_toolchain
\* fails with the validation error for that key and the filesystem is as it
\* was, also when the canonical target is occupied; and the validation error
\* is the outcome of no other run.
C11_ValidationOrdering ==
    last.op = "register" =>
        /\ (last.key # None /\ ~last.accepts)
              => (/\ last.result = "ValidationError"
                  /\ last.key = Some(ExpectedKey(last.name, Unwrap(last.info)))
                  /\ fs = before)
        /\ last.result = "ValidationError"
              => (/\ ~last.accepts
                  /\ last.key # None
                  /\ ~IntrospectionFails(before, probe, last.path))

\* a key the callback rejects while a link to an interpreter that is still
\* there sits at its canonical target
C11_Witness ==
    /\ last.op = "register"
    /\ ~last.accepts
    /\ last.result = "ValidationError"
    /\ last.key # None
    /\ Entry(before, TargetOf(Unwrap(last.key))).t = "link"
    /\ HoldsFileOrDirectory(before, Unwrap(last.key))
    /\ fs = before

\* the run got to the link step: introspection, key derivation and the
\* callback went through and the test of line 210 found the target free
LinkStepReached ==
    /\ last.op = "register"
    /\ last.key # None
    /\ last.accepts
    /\ ~TargetInUse(before, TargetOf(Unwrap(last.key)))

\* every way of linking the platform has fails on the filesystem the link
\* step finds: the symbolic link and, on windows, the write of the shim
EveryStrategyFails ==
    LET f == CreateDirAll(before).fs
        target == TargetOf(Unwrap(last.key))
    IN  /\ ~SymlinkFile(f, platform, privileged, last.path, target).ok
        /\ platform = "windows" =>
              \/ ToStr(last.path) = None
              \/ ~FsWrite(f, target, last.path).ok

\* the key register_toolchain returns (Ok(target_version)), if it returns one
ReturnedKey == IF last.result = "Ok" THEN last.key ELSE None

\* C12: register_toolchain fails with the link error exactly when the link
\* step is reached and every link strategy of the platform fails (on unix
\* the symbolic link; on windows the symbolic link and the fallback write),
\* and then it returns no key.
C12_LinkFailure ==
    last.op = "register" =>
        /\ last.result = "LinkError" <=> (LinkStepReached /\ EveryStrategyFails)
        /\ last.result = "LinkError" => ReturnedKey = None

\* on windows without the privilege, a toolchain directory that cannot be
\* created: neither the link nor the shim can be made
C12_Witness ==
    /\ last.op = "register"
    /\ platform = "windows"
    /\ ~privileged
    /\ ToStr(last.path) # None
    /\ LinkStepReached
    /\ EveryStrategyFails
    /\ last.result = "LinkError"
    /\ fs = before

\* C13: once the link step is reached, the outcome of register_toolchain is
\* that of the link step alone, run on whatever create_dir_all left: success
\* with the key when a link strategy succeeds, the link error otherwise;
\* that create_dir_all failed is never the outcome.
C13_BestEffortParent ==
    LinkStepReached =>
        LET linked == LinkInterpreter(CreateDirAll(before).fs, platform, privileged,
                                      last.path, TargetOf(Unwrap(last.key)))
        IN  /\ last.result = (IF linked.ok THEN "Ok" ELSE "LinkError")
            /\ fs = linked.fs

\* the toolchain directory cannot be created: the run goes on to the link
\* step and reports that step's failure
C13_Witness ==
    /\ LinkStepReached
    /\ ~CreateDirAll(before).ok
    /\ platform = "unix"
    /\ last.result = "LinkError"

\* C14: when a register run is killed after create_dir_all and before the
\* link step, the canonical target is as unoccupied as the run found it;
\* the same register called again from there does not fail with the
\* conflict error and ends as a run on the original filesystem would have:
\* same outcome, same key, same filesystem.
C14_RegisterRetry ==
    /\ last.op = "register_stopped" =>
          /\ ~TargetInUse(fs, TargetOf(Unwrap(last.key)))
          /\ fs.node = before.node
    /\ last.op = "register_retry" =>
          LET o == RegisterToolchain(last.origin, platform, privileged, probe,
                                     last.path, last.name, TRUE)
          IN  /\ last.result # "ConflictError"
              /\ last.result = o.result
              /\ last.key = o.key
              /\ fs = o.fs

\* a run killed after it had created the toolchain directory; the retry
\* finds the directory there and registers the interpreter
C14_Witness ==
    /\ last.op = "register_retry"
    /\ last.origin.parent = "absent"
    /\ before.parent = "dir"
    /\ before.node = last.origin.node
    /\ last.result = "Ok"
    /\ Entry(fs, TargetOf(Unwrap(last.key))).t \in {"link", "file"}

\* C15: when a remove of a directory toolchain is killed with only part of
\* the tree deleted, a directory is still at the canonical path; the same
\* remove called again takes the directory branch, deletes what is left and
\* ends with nothing at the canonical path, everything else as it was.
C15_RemoveRetry ==
    /\ last.op = "remove_stopped" =>
          /\ IsDir(fs, TargetOf(last.version))
          /\ ~IsFile(fs, TargetOf(last.version))
    /\ last.op = "remove_retry" =>
          /\ last.result = "Ok"
          /\ last.message = Some("Removed installed toolchain")
          /\ Entry(fs, TargetOf(last.version)) = NoEntry
          /\ fs = WithoutEntry(before, TargetOf(last.version))

\* the retry of a killed remove, on a tree that is partly gone
C15_Witness ==
    /\ last.op = "remove_retry"
    /\ Entry(before, TargetOf(last.version)) = PartlyDeleted
    /\ last.result = "Ok"
    /\ last.version \notin DOMAIN fs.node

\* the run has returned
Returned(r) == r.pc = "done"

\* what the run has made is at the canonical target, and the candidate
\* files are what they were
KeepsTarget(r) ==
    /\ Entry(fs, TargetOf(r.key)) \in {Link(r.path), PlainFile(r.path)}
    /\ fs.cand = before.cand

\* C16: of two calls of register_toolchain that derive the same key and
\* whose steps interleave, at most one returns success, and what the
\* successful one has created at the target, and the file that refers to,
\* is not overwritten by the other.
C16_RacingRegistrations ==
    \A i, j \in DOMAIN run :
        (i # j /\ Returned(run[i]) /\ Returned(run[j])) =>
            /\ ~(run[i].result = "Ok" /\ run[j].result = "Ok")
            /\ run[i].result = "Ok" => KeepsTarget(run[i])

\* C17: once remove(key) has returned success nothing is at the canonical
\* path of key, whatever was there (a link, a shim, a directory, a link
\* whose candidate is gone), and a register_toolchain that follows and
\* derives this key neither fails with the conflict error nor finds
\* anything in its way at the link step.
C17_RemoveFreesTarget ==
    /\ (last.op = "remove" /\ last.result = "Ok")
          => Entry(fs, get_canonical_py_path(ParseVersion(last.version).value)) = NoEntry
    /\ last.op = "register_after_remove"
          => /\ last.result # "ConflictError"
             /\ Entry(before, TargetOf(Unwrap(last.key))) = NoEntry

\* C18: register_toolchain returns a key only when, in that call, a link
\* or a shim that refers to the candidate path was created at the canonical
\* path of that key, where there was nothing before; and the same call made
\* once more right after fails with the conflict error and changes nothing.
C18_SuccessImpliesRegistered ==
    /\ (/\ last.op \in {"register", "register_retry", "register_after_remove"}
        /\ last.result = "Ok")
          => /\ Entry(before, TargetOf(Unwrap(last.key))) = NoEntry
             /\ Entry(fs, TargetOf(Unwrap(last.key)))
                   \in {Link(last.path), PlainFile(last.path)}
    /\ last.op = "register_again"
          => (last.result = "ConflictError" /\ fs = before)

====
